---- MODULE Spec2Model ----
(***************************************************************************)
(* Model of merge.py: the merge of a base calendar feed with an override   *)
(* feed.  Texts are sequences of one-character strings, so that the        *)
(* normalisation of a SUMMARY and the regular expressions of the           *)
(* identifier resolver are computed, not assumed.  Date values are records *)
(* [kind, t]: kind is "date" (a datetime.date), "naive" or "aware" (a      *)
(* datetime.datetime without or with tzinfo), t the instant in minutes.    *)
(***************************************************************************)
EXTENDS Integers, Sequences, FiniteSets

VARIABLES base_events, overrides, base_by_uid, out, o, target, ev, pc,
          base0, resolved, ppc, ptarget, started, reordered

vars == <<base_events, overrides, base_by_uid, out, o, target, ev, pc,
          base0, resolved, ppc, ptarget, started, reordered>>

(* Bounds of the model: the longest BaseSet and OverrideSet explored. *)
MaxBase == 2
MaxOv == 2

(* merge.py:61  approx_equal_time(o_dt, b_dt, minutes=30) *)
FuzzyMinutes == 30

(* ------------------------------------------------------------------ *)
(* Values                                                               *)
(* ------------------------------------------------------------------ *)

(* ev.get(key) of a property the component does not carry: None. *)
Absent == <<"(absent)">>

(* ev.get("DTSTART") / ev.get("DTEND") of a component without it. *)
NoDt == [kind |-> "absent", t |-> 0]

Dt(kind, t) == [kind |-> kind, t |-> t]

Min(S) == CHOOSE x \in S : \A y \in S : x <= y
Max(S) == CHOOSE x \in S : \A y \in S : x >= y
Abs(n) == IF n < 0 THEN -n ELSE n

(* ------------------------------------------------------------------ *)
(* Text helpers (str.strip, str.lower, \s of the re module)             *)
(* ------------------------------------------------------------------ *)

IsSpace(c) == c \in {" ", "\t", "\n"}

UpperChars == <<"D", "G", "I", "O", "R", "U", "X", "Y", "Z">>
LowerChars == <<"d", "g", "i", "o", "r", "u", "x", "y", "z">>

Lower(c) ==
  IF \E i \in 1..Len(UpperChars) : UpperChars[i] = c
  THEN LowerChars[CHOOSE i \in 1..Len(UpperChars) : UpperChars[i] = c]
  ELSE c

StrLower(s) == [i \in 1..Len(s) |-> Lower(s[i])]

Strip(s) ==
  LET I == {i \in 1..Len(s) : ~IsSpace(s[i])}
  IN  IF I = {} THEN <<>> ELSE SubSeq(s, Min(I), Max(I))

LStrip(s) ==
  LET I == {i \in 1..Len(s) : ~IsSpace(s[i])}
  IN  IF I = {} THEN <<>> ELSE SubSeq(s, Min(I), Len(s))

(* re.sub(r"\s+", " ", s) *)
RECURSIVE CollapseSpaces(_)
CollapseSpaces(s) ==
  IF s = <<>> THEN <<>>
  ELSE IF IsSpace(s[1]) THEN <<" ">> \o CollapseSpaces(LStrip(Tail(s)))
  ELSE <<s[1]>> \o CollapseSpaces(Tail(s))

(* merge.py:18  text(v) *)
Text(v) == IF v = Absent THEN <<>> ELSE v

(* merge.py:21  norm_summary(s) *)
NormSummary(s) == CollapseSpaces(StrLower(Strip(s)))

(* merge.py:15  uid(ev) *)
Uid(e) == Strip(Text(e.uid))

(* merge.py:24  get_dt(ev, key): the value's dt, or None *)
GetDt(e, key) == IF e[key] = NoDt THEN NoDt ELSE e[key]

(* merge.py:28  approx_equal_time: False when a start is missing; the     *)
(* subtraction raises TypeError between a date and a datetime and between *)
(* a naive and an aware datetime; otherwise |a - b| <= minutes.           *)
ApproxEqualTime(a, b, minutes) ==
  IF a = NoDt \/ b = NoDt THEN "False"
  ELSE IF a.kind # b.kind THEN "TypeError"
  ELSE IF Abs(a.t - b.t) <= minutes THEN "True" ELSE "False"

(* ------------------------------------------------------------------ *)
(* Identifier resolver                                                  *)
(* ------------------------------------------------------------------ *)

OrigUidTag == <<"o", "r", "i", "g", "-", "u", "i", "d", ":">>
UidTag == <<"[", "u", "i", "d", ":">>

(* End of the run of non-whitespace characters starting at q. *)
WordEnd(s, q) ==
  Min({r \in q..Len(s) : r = Len(s) \/ IsSpace(s[r + 1])})

(* re.search(r"ORIG-UID:\s*([^\s]+)", desc, flags=re.I): the leftmost     *)
(* position where the tag is followed, after optional whitespace, by a    *)
(* non-whitespace character; group 1 is the run of non-whitespace.        *)
SearchOrigUid(s) ==
  LET n == Len(OrigUidTag)
      Hits == {p \in 1..Len(s) :
                 /\ p + n - 1 <= Len(s)
                 /\ StrLower(SubSeq(s, p, p + n - 1)) = OrigUidTag
                 /\ \E q \in (p + n)..Len(s) : ~IsSpace(s[q])}
  IN  IF Hits = {} THEN Absent
      ELSE LET p == Min(Hits)
               q == Min({x \in (p + n)..Len(s) : ~IsSpace(s[x])})
           IN  SubSeq(s, q, WordEnd(s, q))

(* "$" of the re module: the end of the text, or just before a final "\n" *)
AtEnd(s, r) == r = Len(s) \/ (r = Len(s) - 1 /\ s[Len(s)] = "\n")

(* re.search(r"\[UID:([^\]]+)\]$", summ, flags=re.I): the leftmost        *)
(* position where the tag is followed by one or more characters other     *)
(* than "]" and then by a "]" that ends the text.                         *)
SearchUidTag(s) ==
  LET n == Len(UidTag)
      Close(p) == {r \in (p + n)..Len(s) : s[r] = "]"}
      Hits == {p \in 1..Len(s) :
                 /\ p + n - 1 <= Len(s)
                 /\ StrLower(SubSeq(s, p, p + n - 1)) = UidTag
                 /\ Close(p) # {}
                 /\ Min(Close(p)) > p + n
                 /\ AtEnd(s, Min(Close(p)))}
  IN  IF Hits = {} THEN Absent
      ELSE LET p == Min(Hits)
           IN  SubSeq(s, p + n, Min(Close(p)) - 1)

(* merge.py:33  find_orig_uid_in_override(ov): Absent models None *)
FindOrigUidInOverride(ov) ==
  IF ov.xorig # Absent /\ ov.xorig # <<>> THEN ov.xorig
  ELSE LET m == SearchOrigUid(Text(ov.description))
       IN  IF m # Absent THEN Strip(m)
           ELSE LET m2 == SearchUidTag(Text(ov.summary))
                IN  IF m2 # Absent THEN Strip(m2) ELSE Absent

(* merge.py:50  index_base_by_uid: a dict comprehension, so the last base *)
(* entry with a given UID is the one the key maps to.  Values are         *)
(* positions in base_events (the objects themselves in the code).         *)
IndexBaseByUid(events) ==
  LET Keys == {Uid(events[i]) : i \in 1..Len(events)} \ {<<>>}
  IN  [key \in Keys |-> Max({i \in 1..Len(events) : Uid(events[i]) = key})]

(* ------------------------------------------------------------------ *)
(* Fuzzy matcher                                                        *)
(* ------------------------------------------------------------------ *)

(* Mutant of FuzzyTest: the summaries are not compared. *)
FuzzyTestTimeOnly(b, override) ==
  ApproxEqualTime(GetDt(override, "dtstart"), GetDt(b, "dtstart"),
                  FuzzyMinutes)

(* merge.py:61  the test of one base entry: "o_sum == b_sum and           *)
(* approx_equal_time(...)"; "and" does not evaluate the time comparison   *)
(* when the summaries differ.                                             *)
FuzzyTest(b, override) ==
  IF NormSummary(Text(override.summary)) = NormSummary(Text(b.summary))
  THEN ApproxEqualTime(GetDt(override, "dtstart"), GetDt(b, "dtstart"),
                       FuzzyMinutes)
  ELSE "False"

(* merge.py:53  fuzzy_match_base: every base entry is tested, in order,   *)
(* before the first candidate is returned, so a TypeError of any test     *)
(* leaves the function.  idx is the position of the returned entry, 0     *)
(* for None.                                                              *)
FuzzyMatchBase(events, override) ==
  LET Idx == [i \in 1..Len(events) |-> i]
      IsCandidate(i) == FuzzyTest(events[i], override) = "True"
      candidates == SelectSeq(Idx, IsCandidate)
  IN  IF \E i \in 1..Len(events) :
           FuzzyTest(events[i], override) = "TypeError"
      THEN [raised |-> TRUE, idx |-> 0]
      ELSE [raised |-> FALSE,
            idx |-> IF candidates # <<>> THEN candidates[1] ELSE 0]

(* ------------------------------------------------------------------ *)
(* Overlay engine                                                       *)
(* ------------------------------------------------------------------ *)

OverlayKeys == {"summary", "location", "description", "status"}

(* Mutant of ApplyOverride: the UID is overlaid like the text fields. *)
ApplyOverrideWithUid(base, override) ==
  LET texts == [key \in DOMAIN base |->
                  IF key \in OverlayKeys \cup {"uid"} /\ override[key] # Absent
                  THEN override[key] ELSE base[key]]
  IN  IF override.dtstart # NoDt
      THEN IF override.dtend # NoDt
           THEN [texts EXCEPT !.dtstart = override.dtstart,
                              !.dtend = override.dtend]
           ELSE [texts EXCEPT !.dtstart = override.dtstart]
      ELSE texts

(* Mutant of ApplyOverride: DTEND is overlaid whenever the override has *)
(* one, with or without a DTSTART.                                       *)
ApplyOverrideEndAlways(base, override) ==
  LET texts == [key \in DOMAIN base |->
                  IF key \in OverlayKeys /\ override[key] # Absent
                  THEN override[key] ELSE base[key]]
      start == IF override.dtstart # NoDt
               THEN [texts EXCEPT !.dtstart = override.dtstart] ELSE texts
  IN  IF override.dtend # NoDt
      THEN [start EXCEPT !.dtend = override.dtend] ELSE start

(* merge.py:65  apply_override(base, override): the entry base becomes *)
ApplyOverride(base, override) ==
  LET texts == [key \in DOMAIN base |->
                  IF key \in OverlayKeys /\ override[key] # Absent
                  THEN override[key] ELSE base[key]]
  IN  IF override.dtstart # NoDt
      THEN IF override.dtend # NoDt
           THEN [texts EXCEPT !.dtstart = override.dtstart,
                              !.dtend = override.dtend]
           ELSE [texts EXCEPT !.dtstart = override.dtstart]
      ELSE texts

(* ------------------------------------------------------------------ *)
(* Merge driver                                                         *)
(* ------------------------------------------------------------------ *)

(* Mutant of SelectTarget: the fuzzy matcher is asked first, the index *)
(* only when it finds nothing.                                         *)
SelectTargetFuzzyFirst(events, index, override) ==
  LET orig == FindOrigUidInOverride(override)
      r == FuzzyMatchBase(events, override)
  IN  IF ~r.raised /\ r.idx = 0 /\ orig # Absent /\ orig # <<>>
         /\ orig \in DOMAIN index
      THEN [raised |-> FALSE, idx |-> index[orig], fuzzy |-> TRUE]
      ELSE [raised |-> r.raised, idx |-> r.idx, fuzzy |-> TRUE]

(* merge.py:102-111  the target of one override: by the index when the    *)
(* resolver's identifier is one of its keys, else by the fuzzy matcher.   *)
(* fuzzy tells whether fuzzy_match_base was called.                       *)
SelectTarget(events, index, override) ==
  LET orig == FindOrigUidInOverride(override)
  IN  IF orig # Absent /\ orig # <<>> /\ orig \in DOMAIN index
      THEN [raised |-> FALSE, idx |-> index[orig], fuzzy |-> FALSE]
      ELSE LET r == FuzzyMatchBase(events, override)
           IN  [raised |-> r.raised, idx |-> r.idx, fuzzy |-> TRUE]

(* Mutant of AddComponent: the component is put first. *)
AddComponentFirst(cal, c) == <<c>> \o cal

(* out.add_component(c): c is a reference to a VEVENT object, *)
(* <<"base", i>> or <<"override", k>>.                         *)
AddComponent(cal, c) == Append(cal, c)

BaseRef(i) == <<"base", i>>
OvRef(k) == <<"override", k>>

(* ------------------------------------------------------------------ *)
(* Inputs                                                               *)
(* ------------------------------------------------------------------ *)

BaseEvent(u, s, d) ==
  [uid |-> u, xorig |-> Absent, summary |-> s, location |-> <<"L">>,
   description |-> <<"D">>, status |-> <<"S">>, dtstart |-> d,
   dtend |-> IF d = NoDt THEN NoDt
             ELSE Dt(d.kind, d.t + (IF d.kind = "date" THEN 1440 ELSE 90)),
   other |-> <<"K">>]

OvEvent(x, s, loc, desc, st, d1, d2) ==
  [uid |-> <<"o">>, xorig |-> x, summary |-> s, location |-> loc,
   description |-> desc, status |-> st, dtstart |-> d1, dtend |-> d2,
   other |-> <<"P">>]

(* Feeds that exercise the resolver and the driver: two base entries     *)
(* share the UID "b", one UID needs stripping, one entry has none.        *)
BaseR ==
  { BaseEvent(<<"b">>, <<"X">>, Dt("naive", 0)),
    BaseEvent(<<"c", " ">>, <<"X">>, Dt("naive", 0)),
    BaseEvent(Absent, <<"Y">>, Dt("naive", 0)),
    BaseEvent(<<"b">>, <<"Z">>, Dt("naive", 0)) }

OvR ==
  { OvEvent(<<"c">>, <<"X">>, Absent, Absent, Absent, Dt("naive", 0), NoDt),
    OvEvent(<<"z">>, <<"Y">>, Absent, Absent, Absent, Dt("naive", 0), NoDt),
    OvEvent(<<"z">>, <<"Q">>, Absent, Absent, Absent, Dt("naive", 0), NoDt),
    OvEvent(Absent, <<"X">>, Absent,
            <<"O", "r", "i", "g", "-", "U", "I", "D", ":", " ", "b", "\n", "x">>,
            Absent, NoDt, NoDt),
    OvEvent(Absent, <<"Q", " ", "[", "U", "I", "D", ":", "c", "]">>, Absent,
            Absent, Absent, Dt("naive", 0), NoDt),
    OvEvent(Absent, <<"[", "u", "i", "d", ":", "b", "]", " ", "Q">>, Absent,
            Absent, Absent, Dt("naive", 0), NoDt) }

(* Feeds that exercise the fuzzy matcher: no override names a base entry; *)
(* the titles "X \ty " and "x Y" normalise to the same text; the starts   *)
(* are 30 and 31 minutes apart, missing, or of different kinds.           *)
TitleB == <<"X", " ", "\t", "y", " ">>
TitleO == <<"x", " ", "Y">>

BaseF ==
  { BaseEvent(<<"b">>, TitleB, Dt("naive", 0)),
    BaseEvent(<<"c">>, TitleB, Dt("naive", 61)),
    BaseEvent(<<"d">>, Absent, Dt("naive", 0)),
    BaseEvent(<<"e">>, TitleB, Dt("date", 0)),
    BaseEvent(<<"f">>, TitleB, NoDt) }

OvF ==
  { OvEvent(Absent, TitleO, Absent, Absent, Absent, Dt("naive", 30), NoDt),
    OvEvent(Absent, TitleO, Absent, Absent, Absent, NoDt, NoDt),
    OvEvent(Absent, Absent, Absent, Absent, Absent, Dt("naive", 30), NoDt),
    OvEvent(Absent, TitleO, Absent, Absent, Absent, Dt("aware", 30), NoDt),
    OvEvent(Absent, <<"X">>, Absent, Absent, Absent, Dt("naive", 30), NoDt) }

(* Feeds that exercise the overlay: every override names its target and   *)
(* defines its own subset of the fields, with values of its own.          *)
BaseO ==
  { BaseEvent(<<"b">>, <<"X">>, Dt("naive", 0)),
    BaseEvent(<<"c">>, <<"Y">>, Dt("naive", 0)) }

OvO ==
  { OvEvent(<<"b">>, <<"Q">>, <<"M">>, Absent, Absent,
            Dt("naive", 200), Dt("naive", 260)),
    OvEvent(<<"b">>, Absent, Absent, <<"E">>, <<"C">>,
            Dt("naive", 300), NoDt),
    OvEvent(<<"b">>, <<"Z">>, <<"N">>, Absent, <<"T">>,
            NoDt, Dt("naive", 500)),
    OvEvent(<<"c">>, Absent, Absent, Absent, <<"C">>, NoDt, NoDt) }

SeqsUpTo(S, n) == UNION {[1..m -> S] : m \in 1..n}

Feeds ==
  (SeqsUpTo(BaseR, MaxBase) \X SeqsUpTo(OvR, MaxOv))
    \cup (SeqsUpTo(BaseF, MaxBase) \X SeqsUpTo(OvF, MaxOv))
    \cup (SeqsUpTo(BaseO, MaxBase) \X SeqsUpTo(OvO, MaxOv))

(* ------------------------------------------------------------------ *)
(* The sequential run of main()                                         *)
(* ------------------------------------------------------------------ *)

(* merge.py:92-99  the state when the loop over the overrides starts *)
Init ==
  \E f \in Feeds :
    /\ base_events = f[1]
    /\ base0 = f[1]
    /\ overrides = f[2]
    /\ base_by_uid = IndexBaseByUid(f[1])
    /\ out = <<>>
    /\ o = 1
    /\ target = 0
    /\ ev = 1
    /\ pc = "loop"
    /\ resolved = <<>>
    /\ ppc = <<>>
    /\ ptarget = <<>>
    /\ started = <<>>
    /\ reordered = FALSE

(* merge.py:101-111  the next override's target is selected; a TypeError  *)
(* of the fuzzy matcher is caught nowhere and ends the run.               *)
Resolve ==
  /\ pc = "loop"
  /\ o <= Len(overrides)
  /\ LET r == SelectTarget(base_events, base_by_uid, overrides[o])
     IN  /\ resolved' = Append(resolved, r)
         /\ target' = r.idx
         /\ pc' = IF r.raised THEN "fault" ELSE "apply"
  /\ UNCHANGED <<base_events, overrides, base_by_uid, out, o, ev, base0,
                 ppc, ptarget, started, reordered>>

(* Mutant of Overlay: the override that found a target is added to the *)
(* output as well.                                                     *)
OverlayAndAdd ==
  /\ pc = "apply"
  /\ target # 0
  /\ base_events' = [base_events EXCEPT
                       ![target] = ApplyOverride(@, overrides[o])]
  /\ out' = AddComponent(out, OvRef(o))
  /\ o' = o + 1
  /\ pc' = "loop"
  /\ UNCHANGED <<overrides, base_by_uid, target, ev, base0, resolved,
                 ppc, ptarget, started, reordered>>

(* Mutant of Overlay: the override is applied to the entry as the feed *)
(* gave it, so that earlier overlays of the entry are lost.            *)
OverlayOnFeedEntry ==
  /\ pc = "apply"
  /\ target # 0
  /\ base_events' = [base_events EXCEPT
                       ![target] = ApplyOverride(base0[target], overrides[o])]
  /\ o' = o + 1
  /\ pc' = "loop"
  /\ UNCHANGED <<overrides, base_by_uid, out, target, ev, base0, resolved,
                 ppc, ptarget, started, reordered>>

(* merge.py:113-116  a target was found: its fields are overwritten *)
Overlay ==
  /\ pc = "apply"
  /\ target # 0
  /\ base_events' = [base_events EXCEPT
                       ![target] = ApplyOverride(@, overrides[o])]
  /\ o' = o + 1
  /\ pc' = "loop"
  /\ UNCHANGED <<overrides, base_by_uid, out, target, ev, base0, resolved,
                 ppc, ptarget, started, reordered>>

(* merge.py:117-120  no target: the override is added to the output *)
AddNew ==
  /\ pc = "apply"
  /\ target = 0
  /\ out' = AddComponent(out, OvRef(o))
  /\ o' = o + 1
  /\ pc' = "loop"
  /\ UNCHANGED <<base_events, overrides, base_by_uid, target, ev, base0,
                 resolved, ppc, ptarget, started, reordered>>

(* merge.py:101, 123  the loop over the overrides ends *)
LoopEnd ==
  /\ pc = "loop"
  /\ o > Len(overrides)
  /\ pc' = "emit"
  /\ UNCHANGED <<base_events, overrides, base_by_uid, out, o, target, ev,
                 base0, resolved, ppc, ptarget, started, reordered>>

(* merge.py:123-124  the base entries are written to the output *)
EmitBase ==
  /\ pc = "emit"
  /\ ev <= Len(base_events)
  /\ out' = AddComponent(out, BaseRef(ev))
  /\ ev' = ev + 1
  /\ UNCHANGED <<base_events, overrides, base_by_uid, o, target, pc, base0,
                 resolved, ppc, ptarget, started, reordered>>

(* merge.py:126-128  the calendar is serialised *)
Write ==
  /\ pc = "emit"
  /\ ev > Len(base_events)
  /\ pc' = "done"
  /\ UNCHANGED <<base_events, overrides, base_by_uid, out, o, target, ev,
                 base0, resolved, ppc, ptarget, started, reordered>>

Next == Resolve \/ Overlay \/ AddNew \/ LoopEnd \/ EmitBase \/ Write

Spec == Init /\ [][Next]_vars

(* ------------------------------------------------------------------ *)
(* The loop over the overrides, its iterations interleaved              *)
(* ------------------------------------------------------------------ *)

(* merge.py:101-120  the loop as main() runs it, one override after the  *)
(* other: the entries it leaves and the target of each override.          *)
RECURSIVE SeqLoop(_, _, _, _, _)
SeqLoop(events, index, ovs, k, targets) ==
  IF k > Len(ovs)
  THEN [raised |-> FALSE, events |-> events, targets |-> targets]
  ELSE LET r == SelectTarget(events, index, ovs[k])
       IN  IF r.raised
           THEN [raised |-> TRUE, events |-> events, targets |-> targets]
           ELSE SeqLoop(IF r.idx # 0
                        THEN [events EXCEPT ![r.idx] = ApplyOverride(@, ovs[k])]
                        ELSE events,
                        index, ovs, k + 1, Append(targets, r.idx))

Sequential == SeqLoop(base0, base_by_uid, overrides, 1, <<>>)

SeqTarget(k) ==
  IF k <= Len(Sequential.targets) THEN Sequential.targets[k] ELSE 0

SharesTarget(i, k) == SeqTarget(i) # 0 /\ SeqTarget(i) = SeqTarget(k)

(* The override goes to the fuzzy matcher: merge.py:106 fails for it. *)
TakesFuzzy(k) ==
  LET orig == FindOrigUidInOverride(overrides[k])
  IN  ~(orig # Absent /\ orig # <<>> /\ orig \in DOMAIN base_by_uid)

(* The override's overlay writes a field the fuzzy matcher reads. *)
WritesFuzzyKey(k) ==
  overrides[k].summary # Absent \/ overrides[k].dtstart # NoDt

Conflict(i, k) ==
  \/ TakesFuzzy(i) /\ WritesFuzzyKey(k)
  \/ TakesFuzzy(k) /\ WritesFuzzyKey(i)

BaseP ==
  { BaseEvent(<<"b">>, <<"X">>, Dt("naive", 0)),
    BaseEvent(<<"c">>, <<"X">>, Dt("naive", 0)),
    BaseEvent(Absent, <<"Y">>, Dt("date", 0)) }

OvP ==
  { OvEvent(<<"b">>, <<"Y">>, Absent, Absent, Absent, NoDt, NoDt),
    OvEvent(Absent, <<"x">>, Absent, Absent, Absent, Dt("naive", 30), NoDt),
    OvEvent(<<"c">>, Absent, <<"M">>, Absent, Absent, NoDt, NoDt),
    OvEvent(Absent, <<"Y">>, Absent, Absent, Absent, Dt("naive", 0),
            Dt("naive", 45)) }

ParFeeds == SeqsUpTo(BaseP, MaxBase) \X SeqsUpTo(OvP, MaxOv)

ParInit ==
  \E f \in ParFeeds :
    /\ base_events = f[1]
    /\ base0 = f[1]
    /\ overrides = f[2]
    /\ base_by_uid = IndexBaseByUid(f[1])
    /\ out = <<>>
    /\ o = 1
    /\ target = 0
    /\ ev = 1
    /\ pc = "par"
    /\ resolved = <<>>
    /\ ppc = [k \in 1..Len(f[2]) |-> "pending"]
    /\ ptarget = [k \in 1..Len(f[2]) |-> 0]
    /\ started = <<>>
    /\ reordered = FALSE

(* Mutant of ParResolve: the target is selected among the entries as the *)
(* feed gave them, not as the overlays so far left them.                  *)
ParResolveOnFeed(k) ==
  /\ pc = "par"
  /\ ppc[k] = "pending"
  /\ \A i \in 1..(k - 1) : SharesTarget(i, k) => ppc[i] = "done"
  /\ LET r == SelectTarget(base0, base_by_uid, overrides[k])
     IN  /\ pc' = IF r.raised THEN "fault" ELSE "par"
         /\ ptarget' = [ptarget EXCEPT ![k] = r.idx]
         /\ ppc' = [ppc EXCEPT ![k] = "resolved"]
  /\ started' = Append(started, k)
  /\ reordered' = (reordered
                     \/ \E i \in 1..(k - 1) : Conflict(i, k) /\ ppc[i] # "done")
  /\ UNCHANGED <<base_events, overrides, base_by_uid, out, o, target, ev,
                 base0, resolved>>

(* merge.py:102-111 for override k, once the overrides before it that    *)
(* share its target are through.  reordered records that k starts while   *)
(* an earlier override it conflicts with is not through.                  *)
ParResolve(k) ==
  /\ pc = "par"
  /\ ppc[k] = "pending"
  /\ \A i \in 1..(k - 1) : SharesTarget(i, k) => ppc[i] = "done"
  /\ LET r == SelectTarget(base_events, base_by_uid, overrides[k])
     IN  /\ pc' = IF r.raised THEN "fault" ELSE "par"
         /\ ptarget' = [ptarget EXCEPT ![k] = r.idx]
         /\ ppc' = [ppc EXCEPT ![k] = "resolved"]
  /\ started' = Append(started, k)
  /\ reordered' = (reordered
                     \/ \E i \in 1..(k - 1) : Conflict(i, k) /\ ppc[i] # "done")
  /\ UNCHANGED <<base_events, overrides, base_by_uid, out, o, target, ev,
                 base0, resolved>>

(* merge.py:113-116 for override k *)
ParOverlay(k) ==
  /\ pc = "par"
  /\ ppc[k] = "resolved"
  /\ ptarget[k] # 0
  /\ base_events' = [base_events EXCEPT
                       ![ptarget[k]] = ApplyOverride(@, overrides[k])]
  /\ ppc' = [ppc EXCEPT ![k] = "done"]
  /\ UNCHANGED <<overrides, base_by_uid, out, o, target, ev, pc, base0,
                 resolved, ptarget, started, reordered>>

(* merge.py:117-120 for override k *)
ParAddNew(k) ==
  /\ pc = "par"
  /\ ppc[k] = "resolved"
  /\ ptarget[k] = 0
  /\ out' = AddComponent(out, OvRef(k))
  /\ ppc' = [ppc EXCEPT ![k] = "done"]
  /\ UNCHANGED <<base_events, overrides, base_by_uid, o, target, ev, pc,
                 base0, resolved, ptarget, started, reordered>>

(* Every override is through. *)
ParJoin ==
  /\ pc = "par"
  /\ \A k \in DOMAIN ppc : ppc[k] = "done"
  /\ pc' = "joined"
  /\ UNCHANGED <<base_events, overrides, base_by_uid, out, o, target, ev,
                 base0, resolved, ppc, ptarget, started, reordered>>

ParNext ==
  \/ \E k \in DOMAIN ppc : ParResolve(k)
  \/ \E k \in DOMAIN ppc : ParOverlay(k)
  \/ \E k \in DOMAIN ppc : ParAddNew(k)
  \/ ParJoin

ParSpec == ParInit /\ [][ParNext]_vars

(* The interleaved loop ended as the sequential loop does: the same      *)
(* target for every override, the same base entries, and so the same      *)
(* MergedSet.                                                             *)
SameAsSequential ==
  /\ ~Sequential.raised
  /\ ptarget = Sequential.targets
  /\ base_events = Sequential.events

Done == pc = "done"

BaseIdx == 1..Len(base_events)
Processed == 1..Len(resolved)

Count(ref) == Cardinality({j \in 1..Len(out) : out[j] = ref})

(* The references to the base entries, and to the overrides that found   *)
(* no target, each in the order of its feed.                              *)
BaseRefs == [i \in 1..Len(base_events) |-> BaseRef(i)]

UnmatchedRefs ==
  LET All == [k \in 1..Len(resolved) |-> OvRef(k)]
      NoTarget(r) == resolved[r[2]].idx = 0 /\ ~resolved[r[2]].raised
  IN  SelectSeq(All, NoTarget)

DefinedIn(e, key) ==
  IF key \in {"dtstart", "dtend"} THEN e[key] # NoDt ELSE e[key] # Absent

(* C1 as stated: the output of a completed run is every base entry, in   *)
(* BaseSet order, followed by the unmatched overrides in OverrideSet      *)
(* order.                                                                 *)
C1_BaseThenUnmatched == Done => out = BaseRefs \o UnmatchedRefs

(* C1 amended: the output of a completed run is the unmatched overrides  *)
(* in OverrideSet order followed by every base entry in BaseSet order.    *)
C1_UnmatchedThenBase == Done => out = UnmatchedRefs \o BaseRefs

C1_Witness ==
  /\ Done
  /\ Len(UnmatchedRefs) >= 2
  /\ Len(base_events) >= 2

(* C2: no start value of an entry brings the run to a fault: the fuzzy   *)
(* comparison of starts of different kinds, or of a missing start, is     *)
(* "no match".                                                            *)
C2_NoFault == pc # "fault"

(* C3: a step of the run leaves the overrides, the base entries other    *)
(* than the target of an overlay, and of every base entry the identifier  *)
(* and the pass-through fields as they were; the base entries of a        *)
(* completed output carry the identifiers the base feed gave them.        *)
C3_Frame ==
  [][ /\ overrides' = overrides
      /\ Len(base_events') = Len(base_events)
      /\ \A i \in BaseIdx :
           /\ DOMAIN base_events'[i] = DOMAIN base_events[i]
           /\ \A key \in DOMAIN base_events[i] \ (OverlayKeys \cup {"dtstart", "dtend"}) :
                base_events'[i][key] = base_events[i][key]
           /\ (pc # "apply" \/ i # target) => base_events'[i] = base_events[i]
      /\ pc' = "done" =>
           \A j \in 1..Len(out') :
             out'[j][1] = "base" =>
               base_events'[out'[j][2]].uid = base0[out'[j][2]].uid
    ]_vars

C3_Witness ==
  /\ Done
  /\ \E k \in Processed :
       /\ resolved[k].idx # 0
       /\ overrides[k].uid # base0[resolved[k].idx].uid
       /\ overrides[k].other # base0[resolved[k].idx].other
       /\ base_events[resolved[k].idx] # base0[resolved[k].idx]
       /\ Count(BaseRef(resolved[k].idx)) = 1

(* C4: the overrides are never changed, and in a completed output every  *)
(* base entry occurs once, every override that found a target does not    *)
(* occur, every override that found none occurs once, and nothing else    *)
(* occurs.                                                                *)
C4_Counts ==
  /\ \A i \in BaseIdx : Count(BaseRef(i)) = 1
  /\ \A k \in 1..Len(overrides) :
       Count(OvRef(k)) = IF resolved[k].idx = 0 THEN 1 ELSE 0
  /\ Len(out) = Len(base_events)
                  + Cardinality({k \in 1..Len(overrides) : resolved[k].idx = 0})

C4_OnceEach == [][overrides' = overrides /\ (pc' = "done" => C4_Counts')]_vars

C4_Witness ==
  /\ Done
  /\ Len(base_events) >= 2
  /\ \E k \in Processed : resolved[k].idx # 0 /\ resolved[k].fuzzy
  /\ \E k \in Processed : resolved[k].idx = 0

(* C5: after a completed run each overlaid field of a base entry has the *)
(* value of the last override, in OverrideSet order, that targeted the    *)
(* entry and defined the field (for the end: defined start and end), or   *)
(* the value of the base feed when there is none.                         *)
LastWriter(i, keys) ==
  {k \in Processed : resolved[k].idx = i
                     /\ \A key \in keys : DefinedIn(overrides[k], key)}

C5_LastWins ==
  Done =>
    \A i \in BaseIdx :
      /\ \A key \in OverlayKeys \cup {"dtstart"} :
           base_events[i][key] =
             IF LastWriter(i, {key}) = {} THEN base0[i][key]
             ELSE overrides[Max(LastWriter(i, {key}))][key]
      /\ base_events[i].dtend =
           IF LastWriter(i, {"dtstart", "dtend"}) = {} THEN base0[i].dtend
           ELSE overrides[Max(LastWriter(i, {"dtstart", "dtend"}))].dtend

C5_Witness ==
  /\ Done
  /\ \E i \in BaseIdx :
       \E k1, k2 \in Processed :
         /\ k1 < k2
         /\ resolved[k1].idx = i
         /\ resolved[k2].idx = i
         /\ overrides[k1].summary # Absent
         /\ overrides[k2].summary # Absent
         /\ overrides[k1].summary # overrides[k2].summary
         /\ overrides[k1].location # Absent
         /\ base_events[i].summary = overrides[k2].summary

(* The fuzzy rule in the words of the specification: equal normalised    *)
(* titles, both starts defined, of one kind, at most 30 minutes apart.    *)
RuleMatches(b, override) ==
  /\ NormSummary(Text(override.summary)) = NormSummary(Text(b.summary))
  /\ b.dtstart # NoDt
  /\ override.dtstart # NoDt
  /\ b.dtstart.kind = override.dtstart.kind
  /\ Abs(b.dtstart.t - override.dtstart.t) <= 30

RuleFirst(events, override) ==
  LET M == {i \in 1..Len(events) : RuleMatches(events[i], override)}
  IN  IF M = {} THEN 0 ELSE Min(M)

FuzzyCalled == pc \in {"apply", "fault"} /\ resolved[o].fuzzy

(* C6: whenever the fuzzy matcher is called it returns the first base    *)
(* entry, in BaseSet order, that satisfies the fuzzy rule, and None iff   *)
(* no base entry satisfies it.                                            *)
C6_FirstCandidate ==
  FuzzyCalled =>
    /\ pc = "apply"
    /\ target = RuleFirst(base_events, overrides[o])

EmptyTitle(e) == NormSummary(Text(e.summary)) = <<>>

ResolverHit(k) ==
  LET orig == FindOrigUidInOverride(overrides[k])
  IN  orig # Absent /\ orig \in {Uid(base0[i]) : i \in BaseIdx} \ {<<>>}

C9_IndexBeforeFuzzy ==
  pc \in {"apply", "fault"} =>
    IF ResolverHit(o)
    THEN /\ pc = "apply"
         /\ ~resolved[o].fuzzy
         /\ target = base_by_uid[FindOrigUidInOverride(overrides[o])]
         /\ Uid(base_events[target]) = FindOrigUidInOverride(overrides[o])
    ELSE resolved[o].fuzzy

C9_Witness ==
  /\ pc = "apply"
  /\ ResolverHit(o)
  /\ ~FuzzyMatchBase(base_events, overrides[o]).raised
  /\ FuzzyMatchBase(base_events, overrides[o]).idx # 0
  /\ FuzzyMatchBase(base_events, overrides[o]).idx < target

(* The fall-through of C9: an identifier the index does not hold, and a *)
(* target found by the fuzzy matcher.                                    *)
C9_FallsThrough ==
  /\ pc = "apply"
  /\ FindOrigUidInOverride(overrides[o]) # Absent
  /\ ~ResolverHit(o)
  /\ target # 0

(* C10: an overlay gives the target the override's start iff the         *)
(* override defines a start, and the override's end iff it defines both   *)
(* a start and an end; otherwise start and end stay as they were.         *)
C10_PartialTime ==
  [][ (pc = "apply" /\ target # 0) =>
        LET ov == overrides[o]
            before == base_events[target]
            after == base_events'[target]
        IN  /\ after.dtstart = IF ov.dtstart # NoDt THEN ov.dtstart
                               ELSE before.dtstart
            /\ after.dtend = IF ov.dtstart # NoDt /\ ov.dtend # NoDt
                             THEN ov.dtend ELSE before.dtend
    ]_vars

C10_Witness ==
  /\ pc = "loop"
  /\ o > 2
  /\ resolved[o - 1].idx # 0
  /\ resolved[o - 2].idx = resolved[o - 1].idx
  /\ overrides[o - 1].dtstart = NoDt
  /\ overrides[o - 1].dtend # NoDt
  /\ overrides[o - 2].dtstart # NoDt
  /\ overrides[o - 2].dtend = NoDt
  /\ base_events[resolved[o - 1].idx].dtstart = overrides[o - 2].dtstart
  /\ base_events[resolved[o - 1].idx].dtend = base0[resolved[o - 1].idx].dtend
  /\ base_events[resolved[o - 1].idx].dtend.t
       < base_events[resolved[o - 1].idx].dtstart.t

====
